---- MODULE Spec2Model ----
(***************************************************************************)
(* Triangle counting on a CSR adjacency matrix: the kernels cuZeroVariable *)
(* and cuFindTriangles of readCSV.h with their device helpers              *)
(* warpReduceSum and blockReduceSum.                                       *)
(*                                                                         *)
(* A launch is a grid of gridDim blocks of blockDim threads; a block is    *)
(* blockDim / warpSize warps.  Each warp is a process whose position is    *)
(* pc[<<blockIdx, wid>>]; steps that touch only thread-local state (the    *)
(* computation of lane, wid, index, stride and the loop tests) are merged  *)
(* into the neighbouring step that touches shared or global memory.        *)
(* C arrays are functions on 0..n-1.                                       *)
(***************************************************************************)
EXTENDS Integers, Sequences, FiniteSets, TLC

\* #define warpSize 32 / #define numberOfWarps 8
warpSize == 32
numberOfWarps == 8

\* Bound of the exploration: the largest grid.
MaxGrid == 2

\* The kernel sequences the host issues ("Z" cuZeroVariable, "F"
\* cuFindTriangles) and their prefixes: two runs with and without the zero
\* step between them.
Scripts == {<<"Z", "F", "Z", "F">>, <<"Z", "F", "F">>}

\* What an uninitialised word of device memory holds (no run of the kernel
\* reads one: every word is written before it is read).
Junk == {5}

\* Block sizes explored: 1, 8 and 9 whole warps.
BlockDims == {warpSize, numberOfWarps * warpSize, (numberOfWarps + 1) * warpSize}

(***************************************************************************)
(* The CSR structure                                                       *)
(***************************************************************************)
Arr(s) == [i \in 0..(Len(s) - 1) |-> s[i + 1]]

\* struct Sparse_Matrix_in_CSR_format { nnz, csrVal, csrRowPtr, csrColInd }
csrFormat(rp, ci) ==
    [nnz       |-> Len(ci),
     csrVal    |-> [i \in 0..(Len(ci) - 1) |-> 1],
     csrRowPtr |-> Arr(rp),
     csrColInd |-> Arr(ci)]

\* Well-formed inputs: symmetric, rows strictly ascending, no self-loops.
Empty4 == [N |-> 4, A |-> csrFormat(<<0, 0, 0, 0, 0>>, <<>>)]
Path4  == [N |-> 4, A |-> csrFormat(<<0, 1, 3, 5, 6>>, <<1, 0, 2, 1, 3, 2>>)]
K3     == [N |-> 3, A |-> csrFormat(<<0, 2, 4, 6>>, <<1, 2, 0, 2, 0, 1>>)]
K4     == [N |-> 4, A |-> csrFormat(<<0, 3, 6, 9, 12>>,
                                    <<1, 2, 3, 0, 2, 3, 0, 1, 3, 0, 1, 2>>)]
\* a triangle on the nodes 0, 8, 9 of a 10-node graph (more rows than 8 warps)
Tri10  == [N |-> 10, A |-> csrFormat(<<0, 2, 2, 2, 2, 2, 2, 2, 2, 4, 6>>,
                                     <<8, 9, 0, 9, 0, 8>>)]
\* Malformed inputs on which every array read of the kernel stays in range:
\* a row pointer that decreases, and column indices below 0.
BadRowPtr == [N |-> 3, A |-> csrFormat(<<0, 3, 1, 3>>, <<0, 1, 2>>)]
BadColInd == [N |-> 3, A |-> csrFormat(<<0, 2, 4, 4>>, <<-1, 1, -1, 0>>)]

\* An input that satisfies the data-model invariants only: row 0 is not
\* sorted and holds a self-loop, and the matrix is not symmetric.
Loose3 == [N |-> 3, A |-> csrFormat(<<0, 3, 4, 4>>, <<2, 1, 0, 2>>)]

Inputs == {Empty4, Path4, K3, K4, Tri10, Loose3, BadRowPtr, BadColInd}

RowSlice(M, r) == M.csrRowPtr[r]..(M.csrRowPtr[r + 1] - 1)

Adjacent(M, r, c) == \E j \in RowSlice(M, r) : M.csrColInd[j] = c

Monotone(M, n) == \A r \in 0..(n - 1) : M.csrRowPtr[r] <= M.csrRowPtr[r + 1]

ColsInRange(M, n) == \A j \in 0..(M.nnz - 1) : M.csrColInd[j] \in 0..(n - 1)

\* the data-model invariants of the CSR structure
WellFormed(M, n) ==
    /\ Monotone(M, n)
    /\ M.csrRowPtr[0] = 0
    /\ M.csrRowPtr[n] = M.nnz
    /\ ColsInRange(M, n)

\* a valid input of the kernel: well formed, rows strictly ascending,
\* symmetric, no self-loops
Valid(M, n) ==
    /\ WellFormed(M, n)
    /\ \A r \in 0..(n - 1) :
          /\ \A j \in RowSlice(M, r) :
                /\ M.csrColInd[j] # r
                /\ Adjacent(M, M.csrColInd[j], r)
                /\ j + 1 \in RowSlice(M, r) => M.csrColInd[j] < M.csrColInd[j + 1]

\* the number of unordered 3-cycles of the graph
Triangles(M, n) ==
    Cardinality({S \in SUBSET (0..(n - 1)) :
                    /\ Cardinality(S) = 3
                    /\ \A x \in S : \A y \in S \ {x} : Adjacent(M, x, y)})

(***************************************************************************)
(* The scan of one entry (row, col), lines 141-166                         *)
(***************************************************************************)
RECURSIVE ScanSkip(_, _, _, _, _, _)
\* the scan with the cursor moved past the element that stopped the walk:
\* beginPtr_csr_row = l + 1
ScanSkip(M, r, c, k, l, begin) ==
    IF k >= M.csrRowPtr[c + 1] THEN 0
    ELSE IF l >= M.csrRowPtr[r + 1] THEN ScanSkip(M, r, c, k + 1, begin, begin)
    ELSE LET csc_row == M.csrColInd[k]
             csr_col == M.csrColInd[l]
         IN  IF csc_row = csr_col THEN 1 + ScanSkip(M, r, c, k, l + 1, begin)
             ELSE IF csr_col > csc_row THEN ScanSkip(M, r, c, k + 1, l + 1, l + 1)
             ELSE ScanSkip(M, r, c, k, l + 1, begin)

RECURSIVE Scan(_, _, _, _, _, _)
\* k: position in col's list; l: position in row's list;
\* begin: beginPtr_csr_row.  The value is the number of calls of
\* warpReduceSum the thread makes for this entry.
Scan(M, r, c, k, l, begin) ==
    IF k >= M.csrRowPtr[c + 1] THEN 0
    ELSE IF l >= M.csrRowPtr[r + 1] THEN Scan(M, r, c, k + 1, begin, begin)
    ELSE LET csc_row == M.csrColInd[k]
             csr_col == M.csrColInd[l]
         IN  IF csc_row = csr_col THEN 1 + Scan(M, r, c, k, l + 1, begin)
             ELSE IF csr_col > csc_row THEN Scan(M, r, c, k + 1, l, l)
             ELSE Scan(M, r, c, k, l + 1, begin)

RECURSIVE NextBeginAtEnd(_, _, _, _, _)
\* the cursor also moved when the l loop runs to its end
NextBeginAtEnd(M, r, csc_row, l, begin) ==
    IF l >= M.csrRowPtr[r + 1] THEN l
    ELSE LET csr_col == M.csrColInd[l]
         IN  IF csc_row = csr_col THEN NextBeginAtEnd(M, r, csc_row, l + 1, begin)
             ELSE IF csr_col > csc_row THEN l
             ELSE NextBeginAtEnd(M, r, csc_row, l + 1, begin)

RECURSIVE NextBegin(_, _, _, _, _)
\* lines 150-165: the l loop for one element csc_row of col's list, from
\* position l; the value is beginPtr_csr_row when the loop is left
NextBegin(M, r, csc_row, l, begin) ==
    IF l >= M.csrRowPtr[r + 1] THEN begin
    ELSE LET csr_col == M.csrColInd[l]
         IN  IF csc_row = csr_col THEN NextBegin(M, r, csc_row, l + 1, begin)
             ELSE IF csr_col > csc_row THEN l
             ELSE NextBegin(M, r, csc_row, l + 1, begin)

RECURSIVE Cursors(_, _, _, _, _)
\* lines 141-166: the values of beginPtr_csr_row while the thread processes
\* the entry (r, c): at line 141 and after the l loop of each k
Cursors(M, r, c, k, begin) ==
    <<begin>> \o
    (IF k >= M.csrRowPtr[c + 1] THEN <<>>
     ELSE Cursors(M, r, c, k + 1,
                  NextBegin(M, r, M.csrColInd[k], begin, begin)))

RECURSIVE ScanReads(_, _, _, _, _, _)
\* lines 145-165: the indices k and l at which the scan of the entry
\* (r, c) reads csrColInd (lines 147 and 152); a read outside the array
\* ends the trace
ScanReads(M, r, c, k, l, begin) ==
    IF k >= M.csrRowPtr[c + 1] THEN {}
    ELSE IF k \notin DOMAIN M.csrColInd THEN {k}
    ELSE IF l >= M.csrRowPtr[r + 1]
         THEN {k} \cup ScanReads(M, r, c, k + 1, begin, begin)
    ELSE IF l \notin DOMAIN M.csrColInd THEN {k, l}
    ELSE LET csc_row == M.csrColInd[k]
             csr_col == M.csrColInd[l]
         IN  {k, l} \cup
             (IF csc_row = csr_col THEN ScanReads(M, r, c, k, l + 1, begin)
              ELSE IF csr_col > csc_row THEN ScanReads(M, r, c, k + 1, l, l)
              ELSE ScanReads(M, r, c, k, l + 1, begin))

\* the entry at position j of row r is read and passes the filter of line 138
Scanned(M, r, j) == j \in DOMAIN M.csrColInd /\ M.csrColInd[j] > r

\* lines 133-150: the indices at which the threads of a warp read
\* csrRowPtr in the body of row r: row and row + 1 (line 133) and, for an
\* entry with col > row, row, col, col + 1 and row + 1 (lines 141-150)
RowPtrReads(M, r) ==
    {r, r + 1} \cup
    (IF {r, r + 1} \subseteq DOMAIN M.csrRowPtr
     THEN UNION {IF Scanned(M, r, j)
                 THEN {M.csrColInd[j], M.csrColInd[j] + 1}
                 ELSE {} : j \in RowSlice(M, r)}
     ELSE {})

\* lines 135-152: the indices at which the threads of a warp read
\* csrColInd in the body of row r: j (line 135), k (line 147), l (line 152)
ColIndReads(M, r) ==
    IF {r, r + 1} \subseteq DOMAIN M.csrRowPtr
    THEN RowSlice(M, r) \cup
         UNION {IF /\ Scanned(M, r, j)
                   /\ {M.csrColInd[j], M.csrColInd[j] + 1}
                          \subseteq DOMAIN M.csrRowPtr
                THEN ScanReads(M, r, M.csrColInd[j], M.csrRowPtr[M.csrColInd[j]],
                               M.csrRowPtr[r], M.csrRowPtr[r])
                ELSE {} : j \in RowSlice(M, r)}
    ELSE {}

\* the scan with the filter of line 138 off by one: col > row + 1
EntryMatchesPastNext(M, r, j) ==
    LET col == M.csrColInd[j]
    IN  IF col > r + 1
        THEN Scan(M, r, col, M.csrRowPtr[col], M.csrRowPtr[r], M.csrRowPtr[r])
        ELSE 0

\* lines 135-167: the matches a thread finds for the entry at position j
EntryMatches(M, r, j) ==
    LET col == M.csrColInd[j]
    IN  IF col > r
        THEN Scan(M, r, col, M.csrRowPtr[col], M.csrRowPtr[r], M.csrRowPtr[r])
        ELSE 0

RECURSIVE SumOver(_, _, _, _)
\* the sum of f[x] over the positions from, from + step, ... below to
SumOver(f, from, to, step) ==
    IF from >= to THEN 0 ELSE f[from] + SumOver(f, from + step, to, step)

\* line 133: lane visits j = csrRowPtr[row] + lane, + warpSize, ...
LaneMatches(M, r, lane) ==
    SumOver([j \in RowSlice(M, r) |-> EntryMatches(M, r, j)],
            M.csrRowPtr[r] + lane, M.csrRowPtr[r + 1], warpSize)

\* the lanes of a warp that visit at least one entry of the row
ActiveLanes(M, r) ==
    {lane \in 0..(warpSize - 1) : M.csrRowPtr[r] + lane < M.csrRowPtr[r + 1]}

\* all the matches of one row
RowMatches(M, r) ==
    SumOver([j \in RowSlice(M, r) |-> EntryMatches(M, r, j)],
            M.csrRowPtr[r], M.csrRowPtr[r + 1], 1)

(***************************************************************************)
(* State                                                                   *)
(***************************************************************************)
VARIABLES
    A,          \* the csrFormat argument of the kernel
    N,          \* the number of rows
    gridDim,    \* blocks of a launch
    blockDim,   \* threads of a block
    nT,         \* *nT, the accumulator in global memory
    sum,        \* sum[b]: the shared-memory words of block b, from &sum[0]
    pc,         \* pc[<<b, w>>]: position of warp w of block b
    row,        \* row[<<b, w>>]: the loop variable of line 130
    pend,       \* pend[<<b, w>>][lane]: matches of the current row the
                \* thread has found and not yet passed to warpReduceSum
    running,    \* a cuFindTriangles launch is in flight
    ops,        \* the kernels launched so far, "Z" or "F"
    results,    \* the accumulator as read after each completed run
    launchVal,  \* the accumulator when the current run was launched
    visited,    \* <<b, w, r>>: warp w of block b entered row r in this run
    touched,    \* the indices i of the accesses sum[i] made in this run
    adds,       \* the atomicAdds made on *nT in this run
    phase       \* phase[b]: "new", then "zeroed" after line 125, then
                \* "reduced" after the blockReduceSum of line 174

vars == <<A, N, gridDim, blockDim, nT, sum, pc, row, pend, running,
          ops, results, launchVal, visited, touched, adds, phase>>

Blocks == 0..(gridDim - 1)
\* wid = threadIdx.x / warpSize
Warps == 0..((blockDim \div warpSize) - 1)
Units == Blocks \X Warps

\* The shared words a thread can address as sum[lane] or sum[wid]: the array
\* sum[numberOfWarps] is the first numberOfWarps of them, the rest lies
\* behind the array in the block's shared memory.
Window == 0..(warpSize - 1)

indexNoScale(b, w) == w + b

\* line 122
index(b, w) == w + b * numberOfWarps

strideNoGrid == numberOfWarps

\* line 123
stride == numberOfWarps * gridDim

atomicStore(old, val) == val

\* atomicAdd: one indivisible read-modify-write
atomicAdd(old, val) == old + val

\* the host may launch op next
CanIssue(op) ==
    \E s \in Scripts :
        /\ Len(ops) < Len(s)
        /\ SubSeq(s, 1, Len(ops) + 1) = Append(ops, op)

AllDone == \A u \in Units : pc[u] = "done"

Init ==
    /\ \E in \in Inputs : A = in.A /\ N = in.N
    /\ gridDim \in 1..MaxGrid
    /\ blockDim \in BlockDims
    /\ nT \in Junk
    /\ sum \in [Blocks -> {[i \in Window |-> g] : g \in Junk}]
    /\ pc = [u \in Units |-> "done"]
    /\ row = [u \in Units |-> 0]
    /\ pend = [u \in Units |-> <<>>]
    /\ running = FALSE
    /\ ops = <<>>
    /\ results = <<>>
    /\ launchVal = nT
    /\ visited = {}
    /\ touched = {}
    /\ adds = 0
    /\ phase = [b \in Blocks |-> "new"]

(***************************************************************************)
(* Host: kernel launches on one stream, each after the previous completed  *)
(***************************************************************************)
cuZeroVariableKeep ==
    /\ ~running
    /\ CanIssue("Z")
    /\ ops' = Append(ops, "Z")
    /\ UNCHANGED <<A, N, gridDim, blockDim, nT, sum, pc, row, pend,
                   running, results, launchVal, visited, touched, adds, phase>>

\* lines 70-75: (*nT) = 0
cuZeroVariable ==
    /\ ~running
    /\ CanIssue("Z")
    /\ nT' = 0
    /\ ops' = Append(ops, "Z")
    /\ UNCHANGED <<A, N, gridDim, blockDim, sum, pc, row, pend,
                   running, results, launchVal, visited, touched, adds, phase>>

RECURSIVE LoopTo(_, _, _, _)
\* lines 130-169 for the threads of one warp, from the test of line 130 with
\* the loop variable at r: rows in which no thread of the warp finds a match
\* are passed without any access to shared memory; the value is the first
\* row at or after r (in steps of st) in which a match is found, or the
\* value that ends the loop
LoopTo(M, n, r, st) ==
    IF r >= n THEN r
    ELSE IF RowMatches(M, r) > 0 THEN r
    ELSE LoopTo(M, n, r + st, st)

RECURSIVE RowsEnteredThroughN(_, _, _, _)
\* the loop test row <= N
RowsEnteredThroughN(n, r, last, st) ==
    IF r > n \/ r > last THEN {}
    ELSE {r} \cup RowsEnteredThroughN(n, r + st, last, st)

RECURSIVE RowsEntered(_, _, _, _)
\* the rows whose body the warp enters on the way from r to the row last
RowsEntered(n, r, last, st) ==
    IF r >= n \/ r > last THEN {}
    ELSE {r} \cup RowsEntered(n, r + st, last, st)

\* the matches each lane finds in row r (none once the loop has ended)
Found(M, n, r) ==
    IF r < n
    THEN [lane \in ActiveLanes(M, r) |-> LaneMatches(M, r, lane)]
    ELSE <<>>

\* lines 112-123: the launch; every block starts with uninitialised shared
\* memory, warp 0 is before line 125, the other warps wait at line 127 with
\* row = index
cuFindTriangles ==
    /\ ~running
    /\ CanIssue("F")
    /\ running' = TRUE
    /\ ops' = Append(ops, "F")
    /\ launchVal' = nT
    /\ sum' \in [Blocks -> {[i \in Window |-> g] : g \in Junk}]
    /\ pc' = [u \in Units |-> IF u[2] = 0 THEN "zero" ELSE "bar1"]
    /\ row' = [u \in Units |-> index(u[1], u[2])]
    /\ pend' = [u \in Units |-> <<>>]
    /\ visited' = {}
    /\ touched' = {}
    /\ adds' = 0
    /\ phase' = [b \in Blocks |-> "new"]
    /\ UNCHANGED <<A, N, gridDim, blockDim, nT, results>>

\* the host reads the accumulator once the launch has completed
Retire ==
    /\ running
    /\ AllDone
    /\ running' = FALSE
    /\ results' = Append(results, nT)
    /\ UNCHANGED <<A, N, gridDim, blockDim, nT, sum, pc, row, pend,
                   ops, launchVal, visited, touched, adds, phase>>

(***************************************************************************)
(* Device.  A barrier has no step of its own: it opens in the step in      *)
(* which the last warp of the block arrives, and the warps then stand at   *)
(* their next access to shared or global memory.                           *)
(***************************************************************************)
ArrivedOfEight(p, b, at) ==
    \A w \in 0..(numberOfWarps - 1) : w \in Warps /\ p[<<b, w>>] = at

\* __syncthreads: every warp of block b stands at the barrier
Arrived(p, b, at) == \A w \in Warps : p[<<b, w>>] = at

\* lines 171-179 on the positions p: the barrier of line 171 lets warp 0
\* into blockReduceSum and the other warps on to line 175; the barrier of
\* line 175 lets thread 0 on to the atomicAdd of line 179 and ends the others
SyncThreads(p, b) ==
    IF Arrived(p, b, "bar2")
    THEN [u \in DOMAIN p |->
            IF u[1] # b THEN p[u] ELSE IF u[2] = 0 THEN "reduce" ELSE "bar3"]
    ELSE IF Arrived(p, b, "bar3")
    THEN [u \in DOMAIN p |->
            IF u[1] # b THEN p[u] ELSE IF u[2] = 0 THEN "add" ELSE "done"]
    ELSE p

ZeroedArrayOnly(t) == [i \in DOMAIN t |-> IF i < numberOfWarps THEN 0 ELSE t[i]]

\* line 125: every lane of warp 0 stores 0 to sum[lane]
Zeroed(t) == [i \in DOMAIN t |-> 0]

\* lines 125-130: warp 0 zeroes and arrives at the barrier of line 127, where
\* the other warps wait; each warp of the block then runs its loop up to its
\* first match
ZeroSum(b) ==
    LET arrive == [pc EXCEPT ![<<b, 0>>] = "bar1"]
        open   == Arrived(arrive, b, "bar1")
        go(u)  == u[1] = b /\ open
    IN  /\ running
        /\ pc[<<b, 0>>] = "zero"
        /\ sum' = [sum EXCEPT ![b] = Zeroed(@)]
        /\ row' = [u \in Units |->
                     IF go(u) THEN LoopTo(A, N, row[u], stride) ELSE row[u]]
        /\ pend' = [u \in Units |->
                      IF go(u) THEN Found(A, N, row'[u]) ELSE pend[u]]
        /\ visited' = visited \cup UNION
              {{<<u[1], u[2], r>> : r \in RowsEntered(N, row[u], row'[u], stride)}
                  : u \in {v \in Units : go(v)}}
        /\ pc' = SyncThreads([u \in Units |->
                                IF go(u)
                                THEN IF row'[u] < N THEN "scan" ELSE "bar2"
                                ELSE arrive[u]], b)
        /\ touched' = touched \cup DOMAIN sum[b]
        /\ phase' = [phase EXCEPT ![b] = "zeroed"]
        /\ UNCHANGED <<A, N, gridDim, blockDim, nT, running,
                       ops, results, launchVal, adds>>

\* line 98 in place of line 99: threadIdx.x % warpSize
widAsLane(t) == t % warpSize

\* line 99: wid = threadIdx.x / warpSize
wid(t) == t \div warpSize

\* the thread of the group G with g.thread_rank() = 0: its lowest lane
rank0(G) == CHOOSE lane \in G : \A x \in G : lane <= x

valOne(G) == 1

\* line 103: val = g.size()
val(G) == Cardinality(G)

\* lines 95-109 called at line 156: the threads G of the warp that are at a
\* match together form the coalesced group; its rank 0 adds g.size() to
\* sum[wid]
warpReduceSum(b, w, G) ==
    LET u == <<b, w>>
        t == w * warpSize + rank0(G)
    IN
    /\ running
    /\ pc[u] = "scan"
    /\ G # {}
    /\ \A lane \in G : pend[u][lane] > 0
    /\ sum' = [sum EXCEPT ![b][wid(t)] = atomicAdd(@, val(G))]
    /\ pend' = [pend EXCEPT ![u] =
                  [lane \in DOMAIN pend[u] |->
                      IF lane \in G THEN pend[u][lane] - 1 ELSE pend[u][lane]]]
    /\ touched' = touched \cup {wid(t)}
    /\ UNCHANGED <<A, N, gridDim, blockDim, nT, pc, row, running,
                   ops, results, launchVal, visited, adds, phase>>

NextRowInPlace(b, w) ==
    LET u == <<b, w>> IN
    /\ running
    /\ pc[u] = "scan"
    /\ \A lane \in DOMAIN pend[u] : pend[u][lane] = 0
    /\ A' = [A EXCEPT !.csrRowPtr[row[u]] = A.csrRowPtr[row[u] + 1]]
    /\ row' = [row EXCEPT ![u] = LoopTo(A, N, @ + stride, stride)]
    /\ pend' = [pend EXCEPT ![u] = Found(A, N, row'[u])]
    /\ visited' = visited \cup
          {<<b, w, r>> : r \in RowsEntered(N, row[u] + stride, row'[u], stride)}
    /\ pc' = SyncThreads([pc EXCEPT ![u] =
                             IF row'[u] < N THEN "scan" ELSE "bar2"], b)
    /\ UNCHANGED <<N, gridDim, blockDim, nT, sum, running,
                   ops, results, launchVal, touched, adds, phase>>

\* line 130: every thread of the warp has finished the row; row += stride
\* and the loop goes on to the next match or to the barrier of line 171
NextRow(b, w) ==
    LET u == <<b, w>> IN
    /\ running
    /\ pc[u] = "scan"
    /\ \A lane \in DOMAIN pend[u] : pend[u][lane] = 0
    /\ row' = [row EXCEPT ![u] = LoopTo(A, N, @ + stride, stride)]
    /\ pend' = [pend EXCEPT ![u] = Found(A, N, row'[u])]
    /\ visited' = visited \cup
          {<<b, w, r>> : r \in RowsEntered(N, row[u] + stride, row'[u], stride)}
    /\ pc' = SyncThreads([pc EXCEPT ![u] =
                             IF row'[u] < N THEN "scan" ELSE "bar2"], b)
    /\ UNCHANGED <<A, N, gridDim, blockDim, nT, sum, running,
                   ops, results, launchVal, touched, adds, phase>>

RECURSIVE HalveShort(_, _)
\* the rounds without the last one (i = 1)
HalveShort(temp, i) ==
    IF i <= 1 THEN temp
    ELSE HalveShort([lane \in DOMAIN temp |->
                        IF lane < i THEN temp[lane] + temp[lane + i]
                        ELSE temp[lane]],
                    i \div 2)

RECURSIVE Halve(_, _)
\* lines 87-91: one round per i; lane < i adds temp[lane + i] to temp[lane],
\* then g.sync()
Halve(temp, i) ==
    IF i <= 0 THEN temp
    ELSE Halve([lane \in DOMAIN temp |->
                   IF lane < i THEN temp[lane] + temp[lane + i] ELSE temp[lane]],
               i \div 2)

RECURSIVE HalveTouched(_)
\* line 89: the indices lane and lane + i of the accesses temp[lane] and
\* temp[lane + i] made by the lanes below i, over the rounds from i on
HalveTouched(i) ==
    IF i <= 0 THEN {}
    ELSE (0..(2 * i - 1)) \cup HalveTouched(i \div 2)

\* lines 78-92 called at line 174 by the warpSize threads of warp 0
\* (g.size() = warpSize), which then arrive at the barrier of line 175
blockReduceSum(b) ==
    /\ running
    /\ pc[<<b, 0>>] = "reduce"
    /\ sum' = [sum EXCEPT ![b] = Halve(@, warpSize \div 2)]
    /\ pc' = SyncThreads([pc EXCEPT ![<<b, 0>>] = "bar3"], b)
    /\ touched' = touched \cup HalveTouched(warpSize \div 2)
    /\ phase' = [phase EXCEPT ![b] = "reduced"]
    /\ UNCHANGED <<A, N, gridDim, blockDim, nT, row, pend, running,
                   ops, results, launchVal, visited, adds>>

\* the add left out when the block found nothing
GlobalAddNonZero(b) ==
    /\ running
    /\ pc[<<b, 0>>] = "add"
    /\ nT' = atomicAdd(nT, sum[b][0])
    /\ pc' = [pc EXCEPT ![<<b, 0>>] = "done"]
    /\ touched' = touched \cup {0}
    /\ adds' = IF sum[b][0] = 0 THEN adds ELSE adds + 1
    /\ UNCHANGED <<A, N, gridDim, blockDim, sum, row, pend, running,
                   ops, results, launchVal, visited, phase>>

GlobalAddStale(b) ==
    /\ running
    /\ pc[<<b, 0>>] = "add"
    /\ nT' = launchVal + sum[b][0]
    /\ pc' = [pc EXCEPT ![<<b, 0>>] = "done"]
    /\ touched' = touched \cup {0}
    /\ adds' = adds + 1
    /\ UNCHANGED <<A, N, gridDim, blockDim, sum, row, pend, running,
                   ops, results, launchVal, visited, phase>>

\* line 179: thread 0 of the block: atomicAdd(nT, sum[0])
GlobalAdd(b) ==
    /\ running
    /\ pc[<<b, 0>>] = "add"
    /\ nT' = atomicAdd(nT, sum[b][0])
    /\ pc' = [pc EXCEPT ![<<b, 0>>] = "done"]
    /\ touched' = touched \cup {0}
    /\ adds' = adds + 1
    /\ UNCHANGED <<A, N, gridDim, blockDim, sum, row, pend, running,
                   ops, results, launchVal, visited, phase>>

DeviceNext ==
    \/ \E b \in Blocks : ZeroSum(b)
    \/ \E b \in Blocks : \E w \in Warps :
          \E G \in SUBSET (DOMAIN pend[<<b, w>>]) : warpReduceSum(b, w, G)
    \/ \E b \in Blocks : \E w \in Warps : NextRow(b, w)
    \/ \E b \in Blocks : blockReduceSum(b)
    \/ \E b \in Blocks : GlobalAdd(b)

Next ==
    \/ cuZeroVariable
    \/ cuFindTriangles
    \/ Retire
    \/ DeviceNext

Spec == Init /\ [][Next]_vars

\* The device keeps executing a launched kernel: while some warp of the
\* launch can take a step, one eventually does.
FairSpec == Init /\ [][Next]_vars /\ WF_vars(DeviceNext)

(***************************************************************************)
(* What a launch computes, row by row                                      *)
(***************************************************************************)
RECURSIVE WarpCount(_, _, _, _)
\* lines 130-169: the matches of the rows r, r + st, ... below n
WarpCount(M, n, r, st) ==
    IF r >= n THEN 0 ELSE RowMatches(M, r) + WarpCount(M, n, r + st, st)

\* the matches found by the warps of block b
BlockCount(b) ==
    SumOver([w \in Warps |-> WarpCount(A, N, index(b, w), stride)],
            0, blockDim \div warpSize, 1)

\* the matches found by the whole launch
KernelCount == SumOver([b \in Blocks |-> BlockCount(b)], 0, gridDim, 1)

\* the matches found by the blocks that have made their add
AddedCount ==
    SumOver([b \in Blocks |->
                IF pc[<<b, 0>>] = "done" THEN BlockCount(b) ELSE 0],
            0, gridDim, 1)

\* the matches of all the rows, each taken once
RefCount(M, n) == SumOver([r \in 0..(n - 1) |-> RowMatches(M, r)], 0, n, 1)

\* rowPtr decreases somewhere or a column index lies outside [0, N)
Malformed(M, n) == ~Monotone(M, n) \/ ~ColsInRange(M, n)

\* blocks of exactly numberOfWarps warps
EightWarps == blockDim = numberOfWarps * warpSize

\* the host has issued exactly the kernels s and the last has completed
Finished(s) == ops = s /\ ~running

\* the run in flight, or the last completed one, started from a zeroed
\* accumulator
ZeroedRun ==
    /\ Len(ops) >= 2
    /\ ops[Len(ops)] = "F"
    /\ ops[Len(ops) - 1] = "Z"

(***************************************************************************)
(* Claims                                                                  *)
(***************************************************************************)

C2_SameForEveryLaunch ==
    (Valid(A, N) /\ Finished(<<"Z", "F">>)) => nT = RefCount(A, N)

\* C2 amended: for a valid input and blocks of exactly numberOfWarps warps,
\* the final accumulator value is the same for every number of blocks.
C2_SameForEveryGrid ==
    (Valid(A, N) /\ EightWarps /\ Finished(<<"Z", "F">>))
        => nT = RefCount(A, N)

C2_Witness ==
    /\ A = Tri10.A
    /\ EightWarps
    /\ gridDim = 2
    /\ Finished(<<"Z", "F">>)
    /\ visited = {<<0, 0, 0>>, <<0, 1, 1>>, <<0, 2, 2>>, <<0, 3, 3>>, <<0, 4, 4>>,
                  <<0, 5, 5>>, <<0, 6, 6>>, <<0, 7, 7>>, <<1, 0, 8>>, <<1, 1, 9>>}
    /\ nT = 3

\* C3: for a valid input without a triangle (the graph with nnz = 0 and the
\* path 0-1-2-3 included) the accumulator is 0 after cuZeroVariable and one
\* run, for every number of blocks and every block size.
C3_TriangleFreeIsZero ==
    (Valid(A, N) /\ Triangles(A, N) = 0 /\ Finished(<<"Z", "F">>)) => nT = 0

C3_Witness ==
    /\ A = Path4.A
    /\ gridDim = 2
    /\ Finished(<<"Z", "F">>)
    /\ nT = 0

\* C4: in a run started from a zeroed accumulator, whatever the order in
\* which the blocks, warps and threads take their steps, the accumulator is
\* the sum of the counts of the blocks that have made their add: no
\* contribution is lost or counted twice, and the final value is the count
\* of the launch.
C4_NoAddLostOrDoubled ==
    ZeroedRun => nT = AddedCount

\* block 1 has added before block 0
C4_Witness ==
    /\ A = Tri10.A
    /\ EightWarps
    /\ gridDim = 2
    /\ ZeroedRun
    /\ running
    /\ pc[<<1, 0>>] = "done"
    /\ pc[<<0, 0>>] = "add"
    /\ sum[0][0] = 2
    /\ nT = 1

\* C5: after cuZeroVariable, cuFindTriangles, cuZeroVariable,
\* cuFindTriangles the accumulator equals its value after the first run.
C5_SameAfterRezero ==
    Finished(<<"Z", "F", "Z", "F">>) => results[2] = results[1]

C5_Witness ==
    /\ A = K4.A
    /\ EightWarps
    /\ Finished(<<"Z", "F", "Z", "F">>)
    /\ results = <<12, 12>>

\* C6: a run adds to the accumulator: started with the accumulator at v it
\* ends with v plus the count of the run, and cuZeroVariable,
\* cuFindTriangles, cuFindTriangles ends with twice the result of one run.
C6_RunsAccumulate ==
    /\ (~running /\ results # <<>>) =>
          results[Len(results)] = launchVal + KernelCount
    /\ Finished(<<"Z", "F", "F">>) => results[2] = 2 * results[1]

C6_Witness ==
    /\ A = K4.A
    /\ EightWarps
    /\ Finished(<<"Z", "F", "F">>)
    /\ launchVal = 12
    /\ results = <<12, 24>>

\* C7: every launched run ends: every warp of every block passes the three
\* barriers and the group syncs of blockReduceSum, and every block makes
\* its add to the accumulator.
C7_Terminates == []<>(running => AllDone)

C7_Witness ==
    /\ running
    /\ AllDone
    /\ gridDim = 2
    /\ blockDim = warpSize
    /\ A = K3.A

\* C8 as stated: for an input whose rowPtr decreases somewhere or whose
\* colInd has a value outside [0, N) no count is ever reported.
C8_MalformedNeverReports ==
    Malformed(A, N) => results = <<>>

\* C8 amended: the kernel validates nothing.  For an input whose rowPtr
\* decreases somewhere or whose colInd has a value outside [0, N), and on
\* which every array read stays in range, the run never stops before its
\* end and the host reads the count of the scan of that input.
C8_MalformedRunsToEnd ==
    Malformed(A, N) =>
        /\ running => (AllDone \/ ENABLED DeviceNext)
        /\ (~running /\ results # <<>>) =>
              results[Len(results)] = launchVal + KernelCount

C8_Witness ==
    /\ A = BadRowPtr.A
    /\ Malformed(A, N)
    /\ EightWarps
    /\ Finished(<<"Z", "F">>)
    /\ results = <<2>>

\* C9: no step changes the CSR structure (nnz, csrRowPtr, csrColInd, csrVal)
\* or N.
C9_CsrReadOnly == [][A' = A /\ N' = N]_vars

C9_Witness ==
    /\ A = K4.A
    /\ running
    /\ AllDone
    /\ nT = 12
    /\ gridDim = 1

\* C10: with blocks of numberOfWarps warps, a row r is entered only by the
\* warp with wid + numberOfWarps * blockIdx = r mod T, T = numberOfWarps *
\* gridDim, no row >= N is entered, and when the launch has ended every row
\* of [0, N) has been entered by exactly one warp.
C10_RowsPartitioned ==
    EightWarps =>
        /\ \A v \in visited :
              /\ v[3] \in 0..(N - 1)
              /\ v[3] % (numberOfWarps * gridDim) = v[2] + numberOfWarps * v[1]
        /\ (ops # <<>> /\ ops[Len(ops)] = "F" /\ AllDone) =>
              /\ {v[3] : v \in visited} = 0..(N - 1)
              /\ Cardinality(visited) = N

\* N = 10 rows on T = 8 warps: warps 0 and 1 take a second row
C10_Witness ==
    /\ A = Tri10.A
    /\ EightWarps
    /\ gridDim = 1
    /\ running
    /\ AllDone
    /\ <<0, 0, 8>> \in visited
    /\ <<0, 1, 9>> \in visited
    /\ Cardinality(visited) = 10

\* the neighbours of row r
Neighbours(M, r) == {M.csrColInd[j] : j \in RowSlice(M, r)}

\* |N(r) \cap N(c)|
Common(M, r, c) == Cardinality(Neighbours(M, r) \cap Neighbours(M, c))

RECURSIVE Restart(_, _, _, _, _)
\* the two-pointer scan that starts at rowPtr[r] for every element of c's list
Restart(M, r, c, k, l) ==
    IF k >= M.csrRowPtr[c + 1] THEN 0
    ELSE IF l >= M.csrRowPtr[r + 1] THEN Restart(M, r, c, k + 1, M.csrRowPtr[r])
    ELSE LET csc_row == M.csrColInd[k]
             csr_col == M.csrColInd[l]
         IN  IF csc_row = csr_col THEN 1 + Restart(M, r, c, k, l + 1)
             ELSE IF csr_col > csc_row
                  THEN Restart(M, r, c, k + 1, M.csrRowPtr[r])
                  ELSE Restart(M, r, c, k, l + 1)

\* the sum of |N(r) \cap N(c)| over the entries c > r of row r
RowCommon(M, r) ==
    SumOver([j \in RowSlice(M, r) |->
                IF M.csrColInd[j] > r THEN Common(M, r, M.csrColInd[j]) ELSE 0],
            M.csrRowPtr[r], M.csrRowPtr[r + 1], 1)

RECURSIVE WarpCommon(_, _, _, _)
\* RowCommon over the rows r, r + st, ... below n
WarpCommon(M, n, r, st) ==
    IF r >= n THEN 0 ELSE RowCommon(M, r) + WarpCommon(M, n, r + st, st)

\* C11: for a valid input (lists sorted strictly ascending), in every row a
\* warp has entered in a run, the memoized scan of an entry c > r finds
\* exactly |N(r) \cap N(c)| matches, the same number as the scan that
\* restarts at rowPtr[r] for every element of c's list; an entry c <= r and
\* a row of degree zero give no match; and a warp that has finished its
\* rows has recorded the sum of |N(r) \cap N(c)| over the entries c > r of
\* its rows.
C11_MemoizedScanIsIntersection ==
    /\ (running /\ AllDone /\ Valid(A, N)) =>
          /\ \A v \in visited : \A j \in RowSlice(A, v[3]) :
                LET r == v[3]
                    c == A.csrColInd[j]
                IN  IF c > r
                    THEN /\ EntryMatches(A, r, j) = Common(A, r, c)
                         /\ EntryMatches(A, r, j) =
                               Restart(A, r, c, A.csrRowPtr[c], A.csrRowPtr[r])
                    ELSE EntryMatches(A, r, j) = 0
          /\ \A v \in visited :
                RowSlice(A, v[3]) = {} => RowMatches(A, v[3]) = 0
    /\ \A u \in Units :
          (running /\ pc[u] = "bar2" /\ Valid(A, N)) =>
              sum[u[1]][u[2]] = WarpCommon(A, N, index(u[1], u[2]), stride)

\* warp 0 has recorded the 2 + 2 + 2 matches of row 0 of K4
C11_Witness ==
    /\ A = K4.A
    /\ EightWarps
    /\ gridDim = 1
    /\ running
    /\ pc[<<0, 0>>] = "bar2"
    /\ pc[<<0, 1>>] = "scan"
    /\ <<0, 0, 0>> \in visited
    /\ sum[0][0] = 6

\* the matches of the current row that the threads of warp u have found and
\* not yet passed to warpReduceSum
Pending(u) == SumOver(pend[u], 0, Cardinality(DOMAIN pend[u]), 1)

\* the lanes of warp u that pass a match to warpReduceSum in this step
Reducing(u) == {lane \in DOMAIN pend[u] : pend'[u][lane] # pend[u][lane]}

\* C12: in every step in which threads of a warp execute warpReduceSum
\* together, each of them passes one match and sum[wid] grows by the size of
\* the group, once, while no other word changes; hence, for every grouping
\* and interleaving, the slot of a warp in its row loop is the number of
\* matches passed so far, and the slot of a warp that has finished its rows
\* is the number of matches its threads found.
C12_OneAddOfGroupSize ==
    /\ [][\A u \in Units :
            (pc' = pc /\ row' = row /\ pend'[u] # pend[u]) =>
                /\ \A lane \in Reducing(u) : pend'[u][lane] = pend[u][lane] - 1
                /\ sum' = [sum EXCEPT ![u[1]][u[2]] = @ + Cardinality(Reducing(u))]]_vars
    /\ [](\A u \in Units :
            (running /\ pc[u] \in {"scan", "bar2"}) =>
                sum[u[1]][u[2]] + Pending(u)
                    + WarpCount(A, N, row[u] + stride, stride)
                  = WarpCount(A, N, index(u[1], u[2]), stride))

\* row 0 of K4: lanes 0 and 1 have passed one match each, lane 2 none
C12_Witness ==
    /\ A = K4.A
    /\ gridDim = 1
    /\ running
    /\ pc[<<0, 0>>] = "scan"
    /\ row[<<0, 0>>] = 0
    /\ pend[<<0, 0>>][0] = 1
    /\ pend[<<0, 0>>][1] = 1
    /\ pend[<<0, 0>>][2] = 2
    /\ sum[0][0] = 2

\* warp u has left its row loop: the test of line 130 has failed and no
\* match waits to be passed
RowsFinished(u) == row[u] >= N /\ Pending(u) = 0

\* C13: in a block the barriers order the three phases: a warp is in its row
\* loop (and adds into its slot) only after line 125 has zeroed the slots
\* and before blockReduceSum; blockReduceSum runs only when every warp of
\* the block has finished all its rows; and thread 0 stands at the global
\* add, or has made it, only after blockReduceSum has completed.
C13_BarriersOrderPhases ==
    running =>
        \A b \in Blocks :
            /\ \A w \in Warps :
                  pc[<<b, w>>] = "scan" => phase[b] = "zeroed"
            /\ phase[b] = "new" =>
                  \A w \in Warps : pc[<<b, w>>] \in {"zero", "bar1"}
            /\ (pc[<<b, 0>>] = "reduce" \/ phase[b] = "reduced") =>
                  \A w \in Warps :
                      /\ RowsFinished(<<b, w>>)
                      /\ pc[<<b, w>>] \in {"reduce", "bar3", "add", "done"}
            /\ pc[<<b, 0>>] \in {"add", "done"} =>
                  /\ phase[b] = "reduced"
                  /\ \A w \in Warps \ {0} : pc[<<b, w>>] = "done"

\* block 1 is about to reduce while block 0 is still in its row loop
C13_Witness ==
    /\ A = Tri10.A
    /\ gridDim = 2
    /\ blockDim = (numberOfWarps + 1) * warpSize
    /\ running
    /\ pc[<<1, 0>>] = "reduce"
    /\ pc[<<1, 8>>] = "bar3"
    /\ phase[1] = "zeroed"
    /\ sum[1][0] = 1
    /\ pc[<<0, 0>>] = "scan"
    /\ phase[0] = "zeroed"

\* the sum of the slots of the warps of block b
SlotSum(b) == SumOver([w \in Warps |-> sum[b][w]], 0, blockDim \div warpSize, 1)

\* C14: the step in which warp 0 runs blockReduceSum leaves in sum[0] the sum
\* of the slots of all the warps of the block as they stood at the barrier
\* of line 171 (nothing writes a slot between that barrier and the
\* reduction); from then on sum[0] is the count of the block, and the add of
\* the block raises the accumulator by exactly that value.
C14_ReduceCollapsesSlots ==
    /\ [][\A b \in Blocks :
            /\ (phase[b] = "zeroed" /\ phase'[b] = "reduced") =>
                  sum'[b][0] = SlotSum(b)
            /\ (pc[<<b, 0>>] = "add" /\ pc'[<<b, 0>>] = "done") =>
                  nT' = nT + sum[b][0]]_vars
    /\ [](\A b \in Blocks :
            (running /\ phase[b] = "reduced") => sum[b][0] = BlockCount(b))

\* the block of K4 has reduced its slots 6, 4, 2, 0, ... to 12
C14_Witness ==
    /\ A = K4.A
    /\ EightWarps
    /\ gridDim = 1
    /\ running
    /\ phase[0] = "reduced"
    /\ pc[<<0, 0>>] = "add"
    /\ sum[0][0] = 12
    /\ ops = <<"Z", "F">>
    /\ nT = 0

\* C15 as stated: every access sum[i] of a run (the zeroing of line 125,
\* warpReduceSum, blockReduceSum, the read of line 179) has its index i
\* inside the numberOfWarps slots of the array.
C15_SumIndexInArray ==
    touched \subseteq 0..(numberOfWarps - 1)

\* a block of one warp has stored 0 to sum[31] at line 125
C15_Witness ==
    /\ A = K3.A
    /\ gridDim = 1
    /\ blockDim = warpSize
    /\ running
    /\ phase[0] = "zeroed"
    /\ (warpSize - 1) \in touched
    /\ sum[0][warpSize - 1] = 0

\* the blocks whose thread 0 has passed line 179
Added == {b \in Blocks : pc[<<b, 0>>] = "done"}

\* C16: in a run the atomicAdds on the accumulator are one per block that
\* has ended, each made by thread 0 of a block whose reduction has
\* completed, and a complete run has made exactly gridDim of them whatever
\* the number of matches.
C16_OneAddPerBlock ==
    /\ [](running => adds = Cardinality(Added))
    /\ []((~running /\ results # <<>>) => adds = gridDim)
    /\ [][adds' = adds + 1 =>
            \E b \in Blocks :
                /\ phase[b] = "reduced"
                /\ pc[<<b, 0>>] = "add"
                /\ pc' = [pc EXCEPT ![<<b, 0>>] = "done"]]_vars

\* two blocks that found nothing have made their adds
C16_Witness ==
    /\ A = Path4.A
    /\ gridDim = 2
    /\ running
    /\ AllDone
    /\ adds = 2
    /\ sum[0][0] = 0
    /\ sum[1][0] = 0

\* block b is between its first and its second barrier: the slots are
\* zeroed and some warp is still in its row loop
RowPhase(b) == phase[b] = "zeroed" /\ \E w \in Warps : pc[<<b, w>>] = "scan"

\* C17: in the row phase of a block a step that changes the word sum[i]
\* is a warpReduceSum of warp i: i is a warp of the block, threads of warp
\* i and of no other warp pass a match in the step, and the word grows by
\* the size of their group on top of its current value (an atomic add).
C17_SlotWrittenByOwnWarp ==
    [][\A b \in Blocks : \A i \in Window :
          (RowPhase(b) /\ sum'[b][i] # sum[b][i]) =>
              /\ i \in Warps
              /\ pend'[<<b, i>>] # pend[<<b, i>>]
              /\ \A u \in Units \ {<<b, i>>} : pend'[u] = pend[u]
              /\ sum'[b][i] = sum[b][i] + Cardinality(Reducing(<<b, i>>))
              /\ pc' = pc /\ row' = row]_vars

\* warps 0 and 1 of the block are both adding into their slots
C17_Witness ==
    /\ A = K4.A
    /\ EightWarps
    /\ gridDim = 1
    /\ RowPhase(0)
    /\ pc[<<0, 0>>] = "scan"
    /\ pc[<<0, 1>>] = "scan"
    /\ sum[0][0] = 3
    /\ sum[0][1] = 2
    /\ sum[0][2] = 0

\* the cursor values of the entry at position j of row r
EntryCursors(M, r, j) ==
    Cursors(M, r, M.csrColInd[j], M.csrRowPtr[M.csrColInd[j]], M.csrRowPtr[r])

\* C18: while a thread processes an entry (r, c), c > r, of a row its warp
\* has entered in a run, beginPtr_csr_row starts at rowPtr[r], never
\* decreases from one element of c's list to the next, and stays in
\* [rowPtr[r], rowPtr[r+1]).
C18_CursorMonotoneInRow ==
    (running /\ AllDone) =>
        \A v \in visited : \A j \in RowSlice(A, v[3]) :
            A.csrColInd[j] > v[3] =>
                LET r == v[3]
                    t == EntryCursors(A, r, j)
                IN  /\ t[1] = A.csrRowPtr[r]
                    /\ \A i \in 1..(Len(t) - 1) : t[i] <= t[i + 1]
                    /\ \A i \in 1..Len(t) :
                          A.csrRowPtr[r] <= t[i] /\ t[i] < A.csrRowPtr[r + 1]

\* warp 2 scans the entry (2, 3) of K4: the cursor moves from 6 to 7 to 8
C18_Witness ==
    /\ A = K4.A
    /\ EightWarps
    /\ running
    /\ AllDone
    /\ <<0, 2, 2>> \in visited
    /\ A.csrColInd[8] = 3
    /\ EntryCursors(A, 2, 8) = <<6, 7, 8, 8>>

\* the scan of the entry at position j of row r without the filter col > row
EntryMatchesAny(M, r, j) ==
    Scan(M, r, M.csrColInd[j], M.csrRowPtr[M.csrColInd[j]],
         M.csrRowPtr[r], M.csrRowPtr[r])

\* the matches over every entry (r, c) of the full matrix
FullCount(M, n) ==
    SumOver([r \in 0..(n - 1) |->
                SumOver([j \in RowSlice(M, r) |-> EntryMatchesAny(M, r, j)],
                        M.csrRowPtr[r], M.csrRowPtr[r + 1], 1)],
            0, n, 1)

\* C19: for a valid symmetric input, twice the matches over the entries
\* c > r is the matches over every entry of the full matrix, and twice the
\* accumulator after cuZeroVariable and one run (blocks of numberOfWarps
\* warps) is that full count.
C19_HalfDoubledIsFull ==
    (Finished(<<"Z", "F">>) /\ Valid(A, N)) =>
        /\ 2 * RefCount(A, N) = FullCount(A, N)
        /\ EightWarps => 2 * nT = FullCount(A, N)

\* K4: 12 over the upper triangle, 24 over the full matrix
C19_Witness ==
    /\ A = K4.A
    /\ EightWarps
    /\ gridDim = 2
    /\ Finished(<<"Z", "F">>)
    /\ nT = 12
    /\ FullCount(A, N) = 24

\* C20: for an input that satisfies the data-model invariants (rowPtr
\* non-decreasing from 0 to nnz, every colInd value in [0, N)), in every row
\* a warp has entered in a run, for every number of blocks and block size, every
\* index used to read csrRowPtr lies in [0, N] and every index used to read
\* csrColInd lies in [0, nnz).
C20_ReadsInRange ==
    (running /\ AllDone /\ WellFormed(A, N)) =>
        \A v \in visited :
            /\ RowPtrReads(A, v[3]) \subseteq 0..N
            /\ ColIndReads(A, v[3]) \subseteq 0..(A.nnz - 1)

\* Loose3: row 0 reads csrRowPtr[N] for its entry 2, row 1 reads
\* csrColInd[nnz - 1]
C20_Witness ==
    /\ A = Loose3.A
    /\ WellFormed(A, N)
    /\ EightWarps
    /\ running
    /\ AllDone
    /\ <<0, 0, 0>> \in visited
    /\ <<0, 1, 1>> \in visited
    /\ N \in RowPtrReads(A, 0)
    /\ (A.nnz - 1) \in ColIndReads(A, 1)

====
